---- MODULE Spec2Model ----
(***************************************************************************)
(* Model of the quiz-generation proxy handler (api/generate-quiz.js, two   *)
(* source variants) and of the offline asset cache (public/sw.js).         *)
(***************************************************************************)
EXTENDS Integers, Sequences, FiniteSets, TLC

(***************************************************************************)
(* Bounds                                                                  *)
(***************************************************************************)
\* longest generated text, in lexemes
MaxTextLen == 5
\* number of concurrently intercepted fetch events
NumFetch == 2

(***************************************************************************)
(* Quiz handler: values                                                    *)
(***************************************************************************)
\* the two handler sources: "A" = api/generate-quiz.js, "B" = unnamed/part_000
Variants == {"A", "B"}

Methods == {"GET", "POST", "PUT"}

\* req.body when present: topic / numQuestions may be absent (undefined)
Bodies ==
    { [hasTopic |-> ht, topic |-> t, hasNum |-> hn, numQuestions |-> n] :
        ht \in BOOLEAN, t \in {"", "math"}, hn \in BOOLEAN, n \in {0, 5} }

CanonBodies ==
    { b \in Bodies : (~b.hasTopic => b.topic = "") /\ (~b.hasNum => b.numQuestions = 0) }

NoBody == [hasTopic |-> FALSE, topic |-> "", hasNum |-> FALSE, numQuestions |-> 0]

\* upstream HTTP statuses the generation API may answer with
Statuses == {200, 201, 429, 503}

\* lexemes of a generated text.  ItemTok is an object literal carrying all
\* four quiz fields, PartialTok an object literal without "explanation",
\* ProseTok a word that is not JSON, "<fence>" the markdown code fence
\* (three backquotes).
FenceOpen == "<fence>json"
FenceClose == "<fence>"
ItemTok == "{questionText,options,correctAnswer,explanation}"
PartialTok == "{questionText,options,correctAnswer}"
ProseTok == "Here"
Tokens == {FenceOpen, FenceClose, "[", "]", ",", ItemTok, PartialTok, ProseTok}

Texts == UNION { [1..n -> Tokens] : n \in 0..MaxTextLen }

RequiredFields == {"questionText", "options", "correctAnswer", "explanation"}

\* JSON values
NullValue == [type |-> "null", fields |-> {}, elems |-> <<>>]
ObjectValue(fs) == [type |-> "object", fields |-> fs, elems |-> <<>>]
ArrayValue(es) == [type |-> "array", fields |-> {}, elems |-> es]

ParseFail == [ok |-> FALSE, value |-> NullValue, rest |-> <<>>]

\* JSON.parse, as a recursive-descent parse of the lexeme sequence
RECURSIVE ParseValue(_), ParseElems(_, _)
ParseValue(s) ==
    IF s = <<>> THEN ParseFail
    ELSE IF Head(s) = ItemTok
        THEN [ok |-> TRUE, value |-> ObjectValue(RequiredFields), rest |-> Tail(s)]
    ELSE IF Head(s) = PartialTok
        THEN [ok |-> TRUE,
              value |-> ObjectValue(RequiredFields \ {"explanation"}),
              rest |-> Tail(s)]
    ELSE IF Head(s) = "["
        THEN IF Tail(s) # <<>> /\ Head(Tail(s)) = "]"
             THEN [ok |-> TRUE, value |-> ArrayValue(<<>>), rest |-> Tail(Tail(s))]
             ELSE ParseElems(Tail(s), <<>>)
    ELSE ParseFail

ParseElems(s, acc) ==
    LET r == ParseValue(s) IN
    IF ~r.ok \/ r.rest = <<>> THEN ParseFail
    ELSE IF Head(r.rest) = ","
        THEN ParseElems(Tail(r.rest), Append(acc, r.value))
    ELSE IF Head(r.rest) = "]"
        THEN [ok |-> TRUE, value |-> ArrayValue(Append(acc, r.value)), rest |-> Tail(r.rest)]
    ELSE ParseFail

JSONParse(s) ==
    LET r == ParseValue(s) IN
    IF r.ok /\ r.rest = <<>> THEN [ok |-> TRUE, value |-> r.value]
    ELSE [ok |-> FALSE, value |-> NullValue]

\* shapes of the parsed upstream body that the handler distinguishes
\*   cand: how far candidates[0].content.parts[0].text is present
CandShapes == {"absent", "empty", "nocontent", "noparts", "emptyparts", "notext", "text"}

ErrShapes ==
    { [present |-> FALSE, hasMessage |-> FALSE, message |-> ""],
      [present |-> TRUE, hasMessage |-> FALSE, message |-> ""],
      [present |-> TRUE, hasMessage |-> TRUE, message |-> ""],
      [present |-> TRUE, hasMessage |-> TRUE, message |-> "quota exceeded"] }

NoErr == [present |-> FALSE, hasMessage |-> FALSE, message |-> ""]

\* upstream response bodies: not JSON at all, the JSON value null, or an object
UpstreamBodies ==
    { [kind |-> k, cand |-> "absent", err |-> NoErr, text |-> <<>>] : k \in {"notjson", "null"} }
    \cup { [kind |-> "object", cand |-> c, err |-> e, text |-> <<>>] :
             c \in CandShapes \ {"text"}, e \in ErrShapes }
    \cup { [kind |-> "object", cand |-> "text", err |-> NoErr, text |-> t] : t \in Texts }

NoUpstreamBody == [kind |-> "null", cand |-> "absent", err |-> NoErr, text |-> <<>>]

\* messages
MethodMsg == "Method Not Allowed. Only POST requests are accepted."
ConfigMsg(v) ==
    IF v = "A"
    THEN "Server configuration error: API key missing. Please ensure GEMINI_API_KEY is set in Vercel project settings."
    ELSE "Server configuration error: API key missing."
MissingMsg(v) ==
    IF v = "A"
    THEN "Topic and number of questions are required in the request body."
    ELSE "Topic and number of questions are required."
NoContentMsg == "No valid content found in Gemini API response or unexpected structure."
UpstreamFallbackMsg(v) == IF v = "A" THEN "Unknown Gemini API error" ELSE "Gemini API Error"
InternalMsg == "Internal server error during quiz generation."

\* res.status(s).json({ error: m })  and  res.status(s).json(value)
ErrorResponse(s, m) == [status |-> s, isError |-> TRUE, error |-> m, value |-> NullValue]
ValueResponse(s, v) == [status |-> s, isError |-> FALSE, error |-> "", value |-> v]

(***************************************************************************)
(* State                                                                   *)
(***************************************************************************)
VARIABLES
    \* quiz handler
    variant,      \* which handler source is deployed
    apiKeySet,    \* process.env.GEMINI_API_KEY is configured
    pc,           \* "idle", "awaitFetch", "awaitJson", "done"
    req,          \* the inbound request
    upStatus,     \* status of the upstream response (0 before it arrives)
    upBody,       \* body of the upstream response
    outbound,     \* number of outbound calls made by the invocation
    responses,    \* responses sent on res, in order
    thrown,       \* which step threw ("none" if none)
    faulted,      \* an exception escaped the handler
    \* service worker
    phase,        \* lifecycle position of the worker
    cacheKeys,    \* caches.keys(): existing store names in creation order
    stores,       \* store name -> set of cached requests
    installOutcome, \* "pending", "populated", "failed" (catch branch ran)
    pendingDelete,  \* caches.delete calls started by activate, not yet done
    fpc,          \* position of each fetch interception
    freq,         \* its request
    served,       \* what it answered with
    netRequests,  \* number of network fetches started by each interception
    written       \* requests some interception has put into the store

qvars == <<variant, apiKeySet, pc, req, upStatus, upBody, outbound, responses, thrown, faulted>>
swvars == <<phase, cacheKeys, stores, installOutcome, pendingDelete, fpc, freq, served,
            netRequests, written>>
vars == <<qvars, swvars>>

(***************************************************************************)
(* Quiz handler: the code                                                  *)
(***************************************************************************)
\* a request whose method is not POST is rejected
MethodAllowedNoCheck(m) == TRUE
MethodAllowed(m) == m = "POST"

\* !topic || !numQuestions : undefined, "" and 0 are all falsy
MissingParamsTopicOnly(b) == ~b.hasTopic \/ b.topic = ""
MissingParams(b) ==
    \/ ~b.hasTopic \/ b.topic = ""
    \/ ~b.hasNum \/ b.numQuestions = 0

\* geminiResponse.ok
Ok(status) == status >= 200 /\ status <= 299

\* the response sent by the catch block
CatchResponse == ErrorResponse(500, InternalMsg)

\* geminiResult.error?.message || fallback
UpstreamErrorMessage(v, err) ==
    IF err.present /\ err.hasMessage /\ err.message # ""
    THEN err.message
    ELSE UpstreamFallbackMsg(v)

\* res.status(200).json(JSON.parse(text))
SuccessResponseCreated(value) == ValueResponse(201, value)
SuccessResponse(value) == ValueResponse(200, value)

\* what a stretch of the handler does: the responses it sends, the step that
\* threw (if any), and whether that exception is still propagating
Sent(r) == [sends |-> <<r>>, thrown |-> "none", escaped |-> FALSE]
Throw(step) == [sends |-> <<>>, thrown |-> step, escaped |-> TRUE]
Suspended == [sends |-> <<>>, thrown |-> "none", escaped |-> FALSE]

\* try { ... } catch (error) { res.status(500).json(...) }
TryCatchMissing(o) == o
TryCatch(o) ==
    IF o.escaped
    THEN [sends |-> Append(o.sends, CatchResponse), thrown |-> o.thrown, escaped |-> FALSE]
    ELSE o

\* the handler from its entry to the first await (or to its early return);
\* call = TRUE when it reaches the outbound fetch
HandlerEntry(v, key, r) ==
    IF ~MethodAllowed(r.method)
        THEN [call |-> FALSE, out |-> Sent(ErrorResponse(405, MethodMsg))]
    ELSE IF ~key
        THEN [call |-> FALSE, out |-> Sent(ErrorResponse(500, ConfigMsg(v)))]
    ELSE IF ~r.hasBody
        THEN [call |-> FALSE, out |-> TryCatch(Throw("destructure"))]
    ELSE IF MissingParams(r.body)
        THEN [call |-> FALSE, out |-> TryCatch(Sent(ErrorResponse(400, MissingMsg(v))))]
    ELSE [call |-> TRUE, out |-> Suspended]

\* JSON.parse(text) sent with 200, or the SyntaxError caught
ParseAndSend(text) ==
    LET p == JSONParse(text) IN
    IF p.ok THEN Sent(SuccessResponse(p.value)) ELSE Throw("parse")

\* the ok branch of api/generate-quiz.js
SuccessBranchA(body) ==
    IF body.cand \in {"absent", "empty", "nocontent", "noparts", "emptyparts"}
        THEN Sent(ErrorResponse(500, NoContentMsg))
    ELSE IF body.cand = "notext"
        THEN Throw("parse")
    ELSE ParseAndSend(body.text)

\* the ok branch of unnamed/part_000
SuccessBranchB(body) ==
    IF body.cand # "text" \/ body.text = <<>>
        THEN Throw("empty")
    ELSE ParseAndSend(body.text)

\* the non-ok branch
ErrorBranch(v, status, body) ==
    Sent(ErrorResponse(status, UpstreamErrorMessage(v, body.err)))

\* the handler after  await fetch(...)  rejected
HandlerAfterReject == TryCatch(Throw("network"))

\* the handler after  await geminiResponse.json()  settled: json() rejects on
\* a body that is not JSON, and reading a property of null throws
HandlerAfterJson(v, status, body) ==
    TryCatch(
        IF body.kind = "notjson" THEN Throw("upstreamJson")
        ELSE IF body.kind = "null" THEN Throw("nullResult")
        ELSE IF Ok(status)
            THEN IF v = "A" THEN SuccessBranchA(body) ELSE SuccessBranchB(body)
        ELSE ErrorBranch(v, status, body))

NoRequest == [method |-> "GET", hasBody |-> FALSE, body |-> NoBody]

QInit ==
    /\ variant \in Variants
    /\ apiKeySet \in BOOLEAN
    /\ pc = "idle"
    /\ req = NoRequest
    /\ upStatus = 0
    /\ upBody = NoUpstreamBody
    /\ outbound = 0
    /\ responses = <<>>
    /\ thrown = "none"
    /\ faulted = FALSE

\* the runtime invokes the handler with a request
Invoke ==
    /\ pc = "idle"
    /\ \E m \in Methods, hb \in BOOLEAN, b \in CanonBodies :
        /\ (~hb => b = NoBody)
        /\ LET r == [method |-> m, hasBody |-> hb, body |-> b]
               e == HandlerEntry(variant, apiKeySet, r)
           IN /\ req' = r
              /\ IF e.call
                 THEN /\ outbound' = outbound + 1
                      /\ pc' = "awaitFetch"
                      /\ UNCHANGED <<responses, thrown, faulted>>
                 ELSE /\ responses' = responses \o e.out.sends
                      /\ thrown' = e.out.thrown
                      /\ faulted' = e.out.escaped
                      /\ pc' = "done"
                      /\ UNCHANGED outbound
    /\ UNCHANGED <<variant, apiKeySet, upStatus, upBody, swvars>>

\* await fetch(...) rejects: network error, caught
FetchRejects ==
    /\ pc = "awaitFetch"
    /\ responses' = responses \o HandlerAfterReject.sends
    /\ thrown' = HandlerAfterReject.thrown
    /\ faulted' = HandlerAfterReject.escaped
    /\ pc' = "done"
    /\ UNCHANGED <<variant, apiKeySet, req, upStatus, upBody, outbound, swvars>>

\* await fetch(...) resolves with a response of some status
FetchResolves ==
    /\ pc = "awaitFetch"
    /\ \E s \in Statuses : upStatus' = s
    /\ pc' = "awaitJson"
    /\ UNCHANGED <<variant, apiKeySet, req, upBody, outbound, responses, thrown, faulted, swvars>>

\* await geminiResponse.json() settles and the handler runs to its end
JsonSettles ==
    /\ pc = "awaitJson"
    /\ \E b \in UpstreamBodies :
        LET o == HandlerAfterJson(variant, upStatus, b) IN
        /\ upBody' = b
        /\ responses' = responses \o o.sends
        /\ thrown' = o.thrown
        /\ faulted' = o.escaped
    /\ pc' = "done"
    /\ UNCHANGED <<variant, apiKeySet, req, upStatus, outbound, swvars>>

(***************************************************************************)
(* Offline asset cache (service worker)                                    *)
(***************************************************************************)
CACHE_NAME == "quiz-generator-v1"

\* stores left behind by earlier generations
OldNames == {"quiz-generator-v0", "quiz-generator-beta"}
StoreNames == OldNames \cup {CACHE_NAME}

\* the manifest, cut down to one same-origin shell file and one third-party
\* URL (the source lists eleven of the former and five of the latter)
urlsToCache == <<"./index.html", "https://cdn.tailwindcss.com">>

ApiUrl == "./api/generate-quiz"
Urls == {urlsToCache[i] : i \in 1..Len(urlsToCache)} \cup {ApiUrl}
SameOrigin(u) == u \in {"./index.html", ApiUrl}

Requests ==
    { [url |-> u, method |-> "GET"] : u \in Urls } \cup { [url |-> ApiUrl, method |-> "POST"] }

Range(f) == { f[i] : i \in 1..Len(f) }

\* sequences without repetition over a set: the possible caches.keys()
KeyOrders == { q \in UNION { [1..n -> StoreNames] : n \in 0..Cardinality(StoreNames) } :
                 \A i, j \in 1..Len(q) : i # j => q[i] # q[j] }

Fetchers == 1..NumFetch

\* what the network may answer for a URL: same-origin responses have type
\* basic, third-party ones cors or opaque (status 0)
NetworkResponses(u) ==
    IF SameOrigin(u)
    THEN { [status |-> 200, type |-> "basic"], [status |-> 404, type |-> "basic"] }
    ELSE { [status |-> 200, type |-> "cors"], [status |-> 0, type |-> "opaque"] }

\* the fetch listener caches a response only if this holds
ResponseValid(resp) == resp.status = 200 /\ resp.type = "basic"

\* caches.open(name): creates the store when it does not exist
OpenKeys(keys, name) == IF name \in Range(keys) THEN keys ELSE Append(keys, name)

\* cache.addAll(urlsToCache): all entries are added, or none if any request fails
AddAllFirstOnly(entries, failed) ==
    IF failed = {} THEN entries \cup {urlsToCache[1]} ELSE entries
AddAll(entries, failed) ==
    IF failed = {} THEN entries \cup Range(urlsToCache) ELSE entries

\* cacheWhitelist.indexOf(cacheName) === -1
ShouldDeleteAll(name) == TRUE
ShouldDeleteNone(name) == FALSE
ShouldDelete(name) == name # CACHE_NAME

\* caches.match(request): the first store, in key order, holding an entry for
\* the request; only GET requests match
FirstHolding(keys, u) ==
    LET idx == { i \in 1..Len(keys) : u \in stores[keys[i]] } IN
    IF idx = {} THEN 0 ELSE CHOOSE i \in idx : \A j \in idx : i <= j

CachesMatch(r) ==
    LET i == IF r.method = "GET" THEN FirstHolding(cacheKeys, r.url) ELSE 0 IN
    IF i = 0 THEN [hit |-> FALSE, store |-> ""] ELSE [hit |-> TRUE, store |-> cacheKeys[i]]

Pending == [kind |-> "pending", store |-> ""]
FromCache(n) == [kind |-> "cache", store |-> n]
FromNetwork == [kind |-> "network", store |-> ""]
Undefined == [kind |-> "undefined", store |-> ""]
NoFetchRequest == [url |-> ApiUrl, method |-> "GET"]

\* the worker script has been parsed; cache storage holds whatever earlier
\* generations (or an earlier run of this one) left
SWInit ==
    /\ phase = "parsed"
    /\ cacheKeys \in KeyOrders
    /\ stores \in [StoreNames -> SUBSET Urls]
    /\ \A n \in StoreNames : n \notin Range(cacheKeys) => stores[n] = {}
    /\ installOutcome = "pending"
    /\ pendingDelete = {}
    /\ fpc = [p \in Fetchers |-> "idle"]
    /\ freq = [p \in Fetchers |-> NoFetchRequest]
    /\ served = [p \in Fetchers |-> Pending]
    /\ netRequests = [p \in Fetchers |-> 0]
    /\ written = {}

\* install event: caches.open(CACHE_NAME) is called
InstallBegin ==
    /\ phase = "parsed"
    /\ phase' = "installOpening"
    /\ UNCHANGED <<cacheKeys, stores, installOutcome, pendingDelete, fpc, freq, served,
                   netRequests, written, qvars>>

\* caches.open settles: on success the then-callback calls cache.addAll, on
\* failure the catch logs and the waitUntil promise fulfils
InstallOpenSettles ==
    /\ phase = "installOpening"
    /\ \E ok \in BOOLEAN :
        IF ok
        THEN /\ cacheKeys' = OpenKeys(cacheKeys, CACHE_NAME)
             /\ phase' = "installAdding"
             /\ UNCHANGED installOutcome
        ELSE /\ installOutcome' = "failed"
             /\ phase' = "installed"
             /\ UNCHANGED cacheKeys
    /\ UNCHANGED <<stores, pendingDelete, fpc, freq, served, netRequests, written, qvars>>

\* cache.addAll settles; failed is the set of manifest URLs whose request failed
InstallAddAllSettles ==
    /\ phase = "installAdding"
    /\ \E failed \in SUBSET Range(urlsToCache) :
        /\ stores' = [stores EXCEPT ![CACHE_NAME] = AddAll(@, failed)]
        /\ installOutcome' = IF failed = {} THEN "populated" ELSE "failed"
    /\ phase' = "installed"
    /\ UNCHANGED <<cacheKeys, pendingDelete, fpc, freq, served, netRequests, written, qvars>>

\* activate event: caches.keys() resolves and caches.delete is called for
\* every name outside the whitelist
ActivateBegin ==
    /\ phase = "installed"
    /\ pendingDelete' = { n \in Range(cacheKeys) : ShouldDelete(n) }
    /\ phase' = "activating"
    /\ UNCHANGED <<cacheKeys, stores, installOutcome, fpc, freq, served, netRequests,
                   written, qvars>>

\* one of the caches.delete calls completes
ActivateDelete ==
    /\ phase = "activating"
    /\ \E n \in pendingDelete :
        /\ cacheKeys' = SelectSeq(cacheKeys, LAMBDA k : k # n)
        /\ stores' = [stores EXCEPT ![n] = {}]
        /\ pendingDelete' = pendingDelete \ {n}
    /\ UNCHANGED <<phase, installOutcome, fpc, freq, served, netRequests, written, qvars>>

\* Promise.all resolves: activation is complete
ActivateDone ==
    /\ phase = "activating"
    /\ pendingDelete = {}
    /\ phase' = "activated"
    /\ UNCHANGED <<cacheKeys, stores, installOutcome, pendingDelete, fpc, freq, served,
                   netRequests, written, qvars>>

\* a fetch event is dispatched to the active worker: caches.match is called
FetchEvent(p) ==
    /\ phase = "activated"
    /\ fpc[p] \in {"idle", "done"}
    /\ \E r \in Requests : freq' = [freq EXCEPT ![p] = r]
    /\ fpc' = [fpc EXCEPT ![p] = "matching"]
    /\ served' = [served EXCEPT ![p] = Pending]
    /\ netRequests' = [netRequests EXCEPT ![p] = 0]
    /\ UNCHANGED <<phase, cacheKeys, stores, installOutcome, pendingDelete, written, qvars>>

\* caches.match resolves: a hit is returned, a miss starts the network fetch
CacheMatch(p) ==
    /\ fpc[p] = "matching"
    /\ LET m == CachesMatch(freq[p]) IN
        IF m.hit
        THEN /\ served' = [served EXCEPT ![p] = FromCache(m.store)]
             /\ fpc' = [fpc EXCEPT ![p] = "done"]
             /\ UNCHANGED netRequests
        ELSE /\ netRequests' = [netRequests EXCEPT ![p] = @ + 1]
             /\ fpc' = [fpc EXCEPT ![p] = "fetching"]
             /\ UNCHANGED served
    /\ UNCHANGED <<phase, cacheKeys, stores, installOutcome, pendingDelete, freq, written, qvars>>

\* the network fetch rejects: the catch logs and the event is answered with undefined
NetworkFails(p) ==
    /\ fpc[p] = "fetching"
    /\ served' = [served EXCEPT ![p] = Undefined]
    /\ fpc' = [fpc EXCEPT ![p] = "done"]
    /\ UNCHANGED <<phase, cacheKeys, stores, installOutcome, pendingDelete, freq, netRequests,
                   written, qvars>>

\* the network fetch resolves: the response is returned; a valid one is
\* cloned and caches.open(CACHE_NAME) is called for the put
NetworkResponds(p) ==
    /\ fpc[p] = "fetching"
    /\ \E resp \in NetworkResponses(freq[p].url) :
        fpc' = [fpc EXCEPT ![p] = IF ResponseValid(resp) THEN "opening" ELSE "done"]
    /\ served' = [served EXCEPT ![p] = FromNetwork]
    /\ UNCHANGED <<phase, cacheKeys, stores, installOutcome, pendingDelete, freq, netRequests,
                   written, qvars>>

\* caches.open(CACHE_NAME) resolves and cache.put is called
PutOpen(p) ==
    /\ fpc[p] = "opening"
    /\ cacheKeys' = OpenKeys(cacheKeys, CACHE_NAME)
    /\ fpc' = [fpc EXCEPT ![p] = "putting"]
    /\ UNCHANGED <<phase, stores, installOutcome, pendingDelete, freq, served, netRequests,
                   written, qvars>>

\* cache.put settles: the clone is stored under the request, unless the
\* request is not a GET (put rejects, nothing is stored)
CachePut(p) ==
    /\ fpc[p] = "putting"
    /\ IF freq[p].method = "GET"
       THEN /\ stores' = [stores EXCEPT ![CACHE_NAME] = @ \cup {freq[p].url}]
            /\ written' = written \cup {freq[p]}
       ELSE UNCHANGED <<stores, written>>
    /\ fpc' = [fpc EXCEPT ![p] = "done"]
    /\ UNCHANGED <<phase, cacheKeys, installOutcome, pendingDelete, freq, served, netRequests,
                   qvars>>

(***************************************************************************)
(* Specifications                                                          *)
(***************************************************************************)
\* the component a specification is not about stays as constructed
QIdle ==
    /\ variant = "A"
    /\ apiKeySet = TRUE
    /\ pc = "idle"
    /\ req = NoRequest
    /\ upStatus = 0
    /\ upBody = NoUpstreamBody
    /\ outbound = 0
    /\ responses = <<>>
    /\ thrown = "none"
    /\ faulted = FALSE

SWIdle ==
    /\ phase = "parsed"
    /\ cacheKeys = <<>>
    /\ stores = [n \in StoreNames |-> {}]
    /\ installOutcome = "pending"
    /\ pendingDelete = {}
    /\ fpc = [p \in Fetchers |-> "idle"]
    /\ freq = [p \in Fetchers |-> NoFetchRequest]
    /\ served = [p \in Fetchers |-> Pending]
    /\ netRequests = [p \in Fetchers |-> 0]
    /\ written = {}

Init == QInit /\ SWIdle

Next ==
    \/ Invoke
    \/ FetchRejects
    \/ FetchResolves
    \/ JsonSettles

Spec == Init /\ [][Next]_vars

WorkerInit == SWInit /\ QIdle

WorkerNext ==
    \/ InstallBegin
    \/ InstallOpenSettles
    \/ InstallAddAllSettles
    \/ ActivateBegin
    \/ ActivateDelete
    \/ ActivateDone
    \/ \E p \in Fetchers : FetchEvent(p)
    \/ \E p \in Fetchers : CacheMatch(p)
    \/ \E p \in Fetchers : NetworkFails(p)
    \/ \E p \in Fetchers : NetworkResponds(p)
    \/ \E p \in Fetchers : PutOpen(p)
    \/ \E p \in Fetchers : CachePut(p)

WorkerSpec == WorkerInit /\ [][WorkerNext]_vars

(***************************************************************************)
(* Properties of the quiz handler (checked under Spec)                     *)
(***************************************************************************)
Invoked == pc # "idle"

\* the invocation made its outbound call and the upstream answered in full
UpstreamAnswered == pc = "done" /\ outbound = 1 /\ upStatus # 0

\* the upstream answered 2xx and a generated text was extracted from the body
TextDelivered ==
    UpstreamAnswered /\ Ok(upStatus) /\ upBody.kind = "object" /\ upBody.cand = "text"

IsQuizItem(v) == v.type = "object" /\ RequiredFields \subseteq v.fields
IsQuizSet(v) == v.type = "array" /\ \A i \in 1..Len(v.elems) : IsQuizItem(v.elems[i])

\* the text is an array literal whose elements are complete quiz objects
IsQuizArrayText(t) ==
    /\ Len(t) >= 2
    /\ t[1] = "[" /\ t[Len(t)] = "]"
    /\ Len(t) = 2 \/ Len(t) % 2 = 1
    /\ \A i \in 2..(Len(t) - 1) : t[i] = (IF i % 2 = 0 THEN ItemTok ELSE ",")

\* the text is wrapped in a markdown code fence
IsFenced(t) == Len(t) >= 2 /\ t[1] = FenceOpen /\ t[Len(t)] = FenceClose
Unfenced(t) == SubSeq(t, 2, Len(t) - 1)

\* C1: a request whose method is not POST is answered with a single 405
\* error response, whatever its body and whether or not the API key is
\* configured, and no outbound call is made.
C1_NonPostRejected ==
    (Invoked /\ req.method # "POST") =>
        /\ pc = "done"
        /\ Len(responses) = 1
        /\ responses[1].status = 405
        /\ responses[1].isError
        /\ outbound = 0

\* a GET that would pass every other check, rejected all the same
C1_Witness ==
    /\ pc = "done" /\ req.method = "GET" /\ apiKeySet
    /\ req.hasBody /\ ~MissingParams(req.body)
    /\ Len(responses) = 1 /\ responses[1].status = 405

BodyLacksParam == req.hasBody /\ (~req.body.hasTopic \/ ~req.body.hasNum)

\* C2 as stated: every POST whose body lacks topic or numQuestions is
\* answered 400 with an error body and makes no outbound call.
C2_AsStated ==
    (Invoked /\ req.method = "POST" /\ BodyLacksParam) =>
        /\ pc = "done"
        /\ Len(responses) = 1
        /\ responses[1].status = 400
        /\ responses[1].isError
        /\ outbound = 0

\* C2 (amended): with the API key configured, every POST whose body lacks
\* topic or numQuestions is answered 400 with an error body and makes no
\* outbound call.
C2_MissingParamRejected ==
    (Invoked /\ apiKeySet /\ req.method = "POST" /\ BodyLacksParam) =>
        /\ pc = "done"
        /\ Len(responses) = 1
        /\ responses[1].status = 400
        /\ responses[1].isError
        /\ outbound = 0

\* { topic: "math" } without numQuestions, key configured
C2_Witness ==
    /\ pc = "done" /\ apiKeySet /\ req.method = "POST" /\ req.hasBody
    /\ req.body.hasTopic /\ req.body.topic = "math" /\ ~req.body.hasNum
    /\ Len(responses) = 1 /\ responses[1].status = 400

\* C3: whenever the upstream answers non-2xx, the single response carries the
\* upstream status and an error body, whose message is the upstream
\* error.message when the upstream reported one.
C3_UpstreamErrorForwarded ==
    (UpstreamAnswered /\ ~Ok(upStatus)) =>
        /\ Len(responses) = 1
        /\ responses[1].status = upStatus
        /\ responses[1].isError
        /\ (upBody.kind = "object" /\ upBody.err.hasMessage /\ upBody.err.message # "")
               => responses[1].error = upBody.err.message

\* C4 as stated: a 2xx upstream answer whose generated text is well-formed
\* JSON yields 200 with a sequence of quiz items having all four fields.
C4_AsStated ==
    (TextDelivered /\ JSONParse(upBody.text).ok) =>
        /\ Len(responses) = 1
        /\ responses[1].status = 200
        /\ ~responses[1].isError
        /\ IsQuizSet(responses[1].value)

\* C4 (amended): a 2xx upstream answer whose generated text is well-formed
\* JSON yields 200 with the value the text parses to; that body is a sequence
\* of quiz items with all four fields whenever the text is an array of
\* complete quiz objects (the handler does not check the shape).
C4_ParsedTextReturned ==
    (TextDelivered /\ JSONParse(upBody.text).ok) =>
        /\ responses = <<ValueResponse(200, JSONParse(upBody.text).value)>>
        /\ IsQuizArrayText(upBody.text) => IsQuizSet(responses[1].value)

\* a two-question quiz relayed
C4_Witness ==
    /\ TextDelivered
    /\ upBody.text = <<"[", ItemTok, ",", ItemTok, "]">>
    /\ Len(responses) = 1 /\ responses[1].status = 200
    /\ Len(responses[1].value.elems) = 2

\* C5: a 2xx upstream answer whose generated text is not valid JSON yields a
\* single 500 whose message differs from the generic internal-error message,
\* and never a 200 payload.
C5_InvalidJsonDistinctError ==
    (TextDelivered /\ ~JSONParse(upBody.text).ok) =>
        /\ Len(responses) = 1
        /\ responses[1].status = 500
        /\ responses[1].isError
        /\ responses[1].error # InternalMsg

\* C6: a 2xx upstream answer whose generated text is a valid JSON array
\* wrapped in a code fence yields 200 with the array parsed from the text
\* inside the fence.
C6_FencedJsonAccepted ==
    (/\ TextDelivered
     /\ IsFenced(upBody.text)
     /\ JSONParse(Unfenced(upBody.text)).ok
     /\ JSONParse(Unfenced(upBody.text)).value.type = "array") =>
        responses = <<ValueResponse(200, JSONParse(Unfenced(upBody.text)).value)>>

\* C10: an invocation that has ended has sent exactly one response, none is
\* sent before, no exception escapes the handler, and whenever a step threw
\* the response is the 500 generic internal-server-error.
C10_OneResponseNoFault ==
    /\ ~faulted
    /\ Len(responses) = (IF pc = "done" THEN 1 ELSE 0)
    /\ thrown # "none" =>
          /\ pc = "done"
          /\ responses = <<ErrorResponse(500, InternalMsg)>>

\* the generated text could not be parsed and the catch block answered
C10_Witness ==
    /\ pc = "done" /\ thrown = "parse" /\ outbound = 1
    /\ responses = <<ErrorResponse(500, InternalMsg)>>

(***************************************************************************)
(* Properties of the service worker (checked under WorkerSpec)             *)
(***************************************************************************)
InstallCompleted == phase \in {"installed", "activating", "activated"}

ManifestCached ==
    /\ CACHE_NAME \in Range(cacheKeys)
    /\ Range(urlsToCache) \subseteq stores[CACHE_NAME]

CurrentStoreKept ==
    /\ (CACHE_NAME \in Range(cacheKeys)) <=> (CACHE_NAME \in Range(cacheKeys'))
    /\ stores'[CACHE_NAME] = stores[CACHE_NAME]

\* C8: once activate has completed, caches.keys() lists no store other than
\* CACHE_NAME, and no step of activate deletes the store CACHE_NAME or
\* changes its entries.
C8_ActivateKeepsOnlyCurrent ==
    /\ [](phase = "activated" => \A n \in Range(cacheKeys) : n = CACHE_NAME)
    /\ [][(phase \in {"installed", "activating"}) => CurrentStoreKept]_vars

\* activate has completed, it removed an old store and the current one
\* still holds entries
C8_Witness ==
    /\ phase = "activated"
    /\ cacheKeys = <<CACHE_NAME>>
    /\ stores[CACHE_NAME] = Urls
    /\ installOutcome = "failed"

\* the store CACHE_NAME holds an entry matching the request
CurrentStoreHolds(r) ==
    /\ CACHE_NAME \in Range(cacheKeys)
    /\ r.method = "GET"
    /\ r.url \in stores[CACHE_NAME]

\* the lookup of interception p resolves in this step
LookupStep(p) == fpc[p] = "matching" /\ fpc'[p] # "matching"

AnsweredFromCurrentStore(p) ==
    /\ fpc'[p] = "done"
    /\ served'[p] = FromCache(CACHE_NAME)
    /\ netRequests'[p] = 0

\* C9: a lookup answers from the store CACHE_NAME with no network fetch
\* exactly when that store holds a matching entry (otherwise one network
\* fetch is started), and a request some interception has put into the store
\* is answered from it ever after, under every interleaving.
C9_ReadThrough ==
    [][\A p \in Fetchers : LookupStep(p) =>
          /\ AnsweredFromCurrentStore(p) <=> CurrentStoreHolds(freq[p])
          /\ ~CurrentStoreHolds(freq[p]) =>
                (fpc'[p] = "fetching" /\ netRequests'[p] = 1 /\ served'[p] = Pending)
          /\ freq[p] \in written => AnsweredFromCurrentStore(p)]_vars

\* install failed to populate; one interception fetched the shell page from
\* the network and put it into the store, another was then answered from the
\* store
C9_Witness ==
    \E p, q \in Fetchers :
        /\ p # q
        /\ installOutcome = "failed"
        /\ freq[p] = [url |-> urlsToCache[1], method |-> "GET"]
        /\ freq[q] = freq[p]
        /\ freq[p] \in written
        /\ fpc[p] = "done" /\ served[p] = FromNetwork /\ netRequests[p] = 1
        /\ fpc[q] = "done" /\ served[q] = FromCache(CACHE_NAME) /\ netRequests[q] = 0

====
